---------------------------- MODULE Spec2Model ----------------------------
(***************************************************************************)
(* Model of src/src/iagos_envri/iagos_introspection.py: the manual token   *)
(* prompt (getHeader), the OAuth2 device-authorization flow                *)
(* (getHeaderOAuth) and the download entry point (downloadOneFlight).      *)
(*                                                                         *)
(* One call of downloadOneFlight runs at a time (the program is            *)
(* single-threaded and blocking); pc is the line the call has reached.     *)
(* The identity provider, the resource server and the operator at the      *)
(* console are the environment: each blocking call (requests.post,         *)
(* requests.get, input) is one action that draws what the environment      *)
(* answers from a small set.  The file system persists across calls.       *)
(* Strings are TLA+ strings and are built with \o exactly where the code   *)
(* builds them with + or an f-string.                                      *)
(***************************************************************************)
EXTENDS Integers, Sequences, FiniteSets, TLC

VARIABLES
    pc,               \* line reached by the current call of downloadOneFlight
    calls,            \* number of calls of downloadOneFlight started so far
    \* ---- arguments and locals of downloadOneFlight
    flight, output_dir, use_oauth,
    headers,          \* line 126
    response,         \* line 130
    output_file,      \* line 133
    chunks,           \* what response.iter_content has still to yield
    \* ---- locals of getHeaderOAuth
    device_response,  \* line 47
    device_data,      \* line 58
    device_code,      \* line 66
    interval,         \* line 67, line 94
    token_response,   \* line 70
    \* ---- the world the program acts on
    fs,               \* file system: path -> content, for the files that exist
    stdout,           \* lines printed by downloadOneFlight in the current call
    exc,              \* the exception the current call raised, or None
    \* ---- history of the current call (observations, never read by the code)
    fs0,              \* fs as it was when the call started
    acquired,         \* the header the token acquirer returned, or None
    typed,            \* what the operator entered at the prompt, or None
    prompts,          \* number of input() prompts
    devicePosts,      \* number of POSTs to {AUTH_BASE_URL}/auth/device
    tokenPosts,       \* number of POSTs to {AUTH_BASE_URL}/token (saturating)
    token_request,    \* url and form data of the last POST to the token endpoint
    sleepCalls,       \* number of time.sleep calls (saturating)
    slept,            \* arguments of the time.sleep calls since the last token response
    elapsed,          \* total seconds slept (saturating)
    slowDowns,        \* number of slow_down responses received
    gets,             \* number of GETs to the resource server
    get_request,      \* url and headers of the GET, or None
    fwrites           \* arguments of the f.write calls

vars == <<pc, calls, flight, output_dir, use_oauth, headers, response, output_file,
          chunks, device_response, device_data, device_code, interval,
          token_response, fs, stdout, exc, fs0, acquired, typed, prompts,
          devicePosts, tokenPosts, token_request, sleepCalls, slept, elapsed,
          slowDowns, gets, get_request, fwrites>>

oauthLocals == <<device_response, device_data, device_code, interval, token_response>>
downloadLocals == <<headers, response, output_file, chunks>>
callArgs == <<calls, flight, output_dir, use_oauth, fs0>>
pollHistory == <<tokenPosts, token_request, sleepCalls, slept, elapsed, slowDowns>>
getHistory == <<gets, get_request, fwrites>>

--------------------------------------------------------------------------
\* Bounds of the model.

\* calls of downloadOneFlight in one behaviour
MaxCalls == 2
\* slow_down answers the identity provider gives in one flow
MaxSlowDowns == 2
\* cap of the observation counters tokenPosts and sleepCalls
MaxCount == 3
\* cap of the observation counter elapsed
MaxElapsed == 6

--------------------------------------------------------------------------
\* Program constants.

SERVICE_URL == "https://api.sedoo.fr/iagos-backend-test/v2.0/downloads"
AUTH_BASE_URL == "https://login.staging.envri.eu/auth/realms/envri/protocol/openid-connect"
CLIENT_ID == "envri-token-cli"
GRANT_TYPE == "urn:ietf:params:oauth:grant-type:device_code"
ACCEPT == "application/octet-stream"
\* interval += 5
SlowDownIncrement == 5

\* The value None, and a name that holds a dict, a response or an exception and is
\* not bound yet.
None == [none |-> TRUE]
\* A name that holds a string and is not bound yet.
Unbound == "<unbound>"
\* A name that holds an integer and is not bound yet.
UnboundInt == 0 - 1

Min(a, b) == IF a < b THEN a ELSE b

--------------------------------------------------------------------------
\* What the environment can supply.

Flights == {"F1", "F2"}
OutputDirs == {"/tmp"}
\* what the operator types at the prompt; the empty string included
TypedTokens == {"", "manual1"}
AccessTokens == {"tok123", "tok456"}
DeviceCodes == {"abc", "xyz"}
Intervals == {1, 5}
ExpiresIn == {3}

DeviceResponses ==
    { [status_code |-> 200, text |-> "",
       json |-> [device_code |-> dc, verification_uri_complete |-> "https://x",
                 expires_in |-> e, interval |-> i]]
        : dc \in DeviceCodes, e \in ExpiresIn, i \in Intervals }
    \cup { [status_code |-> s, text |-> "unavailable", json |-> None] : s \in {400, 503} }

TokenErrors == {"authorization_pending", "slow_down", "expired_token",
                "access_denied", "invalid_grant"}

TokenResponses ==
    { [status_code |-> 200, text |-> "", json |-> [access_token |-> t]]
        : t \in AccessTokens }
    \cup { [status_code |-> 400, text |-> "", json |-> [error |-> e]] : e \in TokenErrors }
    \cup { [status_code |-> 400, text |-> "", json |-> [error_description |-> "no error key"]] }
    \cup { [status_code |-> s, text |-> "server error", json |-> None] : s \in {401, 500} }

\* Bodies as response.iter_content yields them: empty, one chunk, chunks in both
\* orders, and keep-alive (empty) chunks at the start, in the middle and at the end.
Bodies ==
    { <<>>, <<"NC">>, <<"", "DATA">>, <<"NC", "", "DATA">>, <<"DATA", "NC", "">> }

GetResponses ==
    { [status_code |-> 200, text |-> "", body |-> b] : b \in Bodies }
    \cup { [status_code |-> s, text |-> "not found", body |-> <<>>] : s \in {404, 401} }

\* Files a prior run may have left.
InitialFileSystems ==
    { <<>>, [p \in {"/tmp/F1.nc"} |-> "OLDOLDOLD"] }

--------------------------------------------------------------------------
\* Pure pieces of the code.

\* line 31
ManualHeader(token) ==
    [Authorization |-> "Bearer " \o token, Accept |-> ACCEPT]

\* Faulty variant of line 83: the token without the "Bearer " scheme.
OAuthHeaderBare(access_token) ==
    [Authorization |-> access_token, Accept |-> ACCEPT]

\* line 83
OAuthHeader(access_token) ==
    [Authorization |-> "Bearer " \o access_token, Accept |-> ACCEPT]

\* error_data.get('error') == e
ErrorIs(error_data, e) ==
    "error" \in DOMAIN error_data /\ error_data.error = e

\* a token response that carries error=slow_down
IsSlowDown(r) == r.status_code = 400 /\ ErrorIs(r.json, "slow_down")

\* str(error_data), as the f-string of line 103 renders the dict
ReprDict(error_data) ==
    IF "error" \in DOMAIN error_data
    THEN "{'error': '" \o error_data.error \o "'}"
    ELSE "{'error_description': '" \o error_data.error_description \o "'}"

\* line 56
DeviceFailedMessage(r) == "Device authorization request failed: " \o r.text
\* line 99
ExpiredMessage == "Device code expired. Please restart the authentication process."
\* Faulty variant of line 101: the message of line 99 pasted again.
DeniedMessageAsExpired ==
    "Device code expired. Please restart the authentication process."
\* line 101
DeniedMessage == "Access denied by user."
\* line 103
AuthErrorMessage(error_data) == "Authentication error: " \o ReprDict(error_data)
\* line 106
TokenFailedMessage(r) ==
    "Token request failed: " \o ToString(r.status_code) \o " - " \o r.text

\* Faulty variant of line 94: interval += 1.
SlowDownIntervalByOne(i) == i + 1
\* line 94
SlowDownInterval(i) == i + SlowDownIncrement

\* line 130
FlightUrl(f) == SERVICE_URL \o "/" \o f \o "?level=2&format=netcdf&type=timeseries"
\* line 133
OutputFile(dir, f) == dir \o "/" \o f \o ".nc"
\* line 139
DownloadedMessage(path) == "File downloaded : " \o path
\* line 142
ErrorMessage(r) == "Error " \o ToString(r.status_code) \o ": " \o r.text

\* Faulty variant of line 126: the flag is ignored.
AcquirerAlwaysOAuth(oauth) == "device_post"
\* line 126
Acquirer(oauth) == IF oauth THEN "device_post" ELSE "getHeader"

\* Faulty variant of line 135: open(path, "ab") keeps what the file held.
OpenAppend(files, path) ==
    [p \in (DOMAIN files) \cup {path} |-> IF p \in DOMAIN files THEN files[p] ELSE ""]

\* open(path, "wb"): the file exists and is empty afterwards
OpenForWrite(files, path) ==
    [p \in (DOMAIN files) \cup {path} |-> IF p = path THEN "" ELSE files[p]]

\* f.write(chunk): appends at the file position, which is the end
WriteTo(files, path, chunk) ==
    [files EXCEPT ![path] = @ \o chunk]

--------------------------------------------------------------------------
Init ==
    /\ pc = "idle"
    /\ calls = 0
    /\ flight = Unbound /\ output_dir = Unbound /\ use_oauth = FALSE
    /\ headers = None /\ response = None /\ output_file = Unbound /\ chunks = <<>>
    /\ device_response = None /\ device_data = None /\ device_code = Unbound
    /\ interval = UnboundInt /\ token_response = None
    /\ fs \in InitialFileSystems
    /\ stdout = <<>>
    /\ exc = None
    /\ fs0 = fs
    /\ acquired = None /\ typed = Unbound /\ prompts = 0
    /\ devicePosts = 0 /\ tokenPosts = 0 /\ token_request = None
    /\ sleepCalls = 0 /\ slept = <<>> /\ elapsed = 0 /\ slowDowns = 0
    /\ gets = 0 /\ get_request = None /\ fwrites = <<>>

\* downloadOneFlight(flight, output_dir, use_oauth) is called: lines 109, 126.
\* Every local starts unbound; the history of the call starts empty.
Call(f, dir, oauth) ==
    /\ pc \in {"idle", "returned", "raised"}
    /\ calls < MaxCalls
    /\ calls' = calls + 1
    /\ flight' = f /\ output_dir' = dir /\ use_oauth' = oauth
    /\ headers' = None /\ response' = None /\ output_file' = Unbound /\ chunks' = <<>>
    /\ device_response' = None /\ device_data' = None /\ device_code' = Unbound
    /\ interval' = UnboundInt /\ token_response' = None
    /\ stdout' = <<>> /\ exc' = None
    /\ fs0' = fs
    /\ acquired' = None /\ typed' = Unbound /\ prompts' = 0
    /\ devicePosts' = 0 /\ tokenPosts' = 0 /\ token_request' = None
    /\ sleepCalls' = 0 /\ slept' = <<>> /\ elapsed' = 0 /\ slowDowns' = 0
    /\ gets' = 0 /\ get_request' = None /\ fwrites' = <<>>
    /\ pc' = Acquirer(oauth)
    /\ UNCHANGED fs

\* getHeader, lines 30-31, and the assignment of line 126.
GetHeader(token) ==
    /\ pc = "getHeader"
    /\ prompts' = prompts + 1
    /\ typed' = token
    /\ headers' = ManualHeader(token)
    /\ acquired' = ManualHeader(token)
    /\ pc' = "get"
    /\ UNCHANGED <<callArgs, response, output_file, chunks, oauthLocals, fs, stdout,
                   exc, devicePosts, pollHistory, getHistory>>

\* getHeaderOAuth, lines 47-53: the POST to the device-authorization endpoint.
PostDevice(r) ==
    /\ pc = "device_post"
    /\ device_response' = r
    /\ devicePosts' = devicePosts + 1
    /\ pc' = "device_check"
    /\ UNCHANGED <<callArgs, downloadLocals, device_data, device_code, interval,
                   token_response, fs, stdout, exc, acquired, typed, prompts,
                   pollHistory, getHistory>>

\* The raise statements of getHeaderOAuth: the exception leaves downloadOneFlight.
Raise(message) ==
    /\ exc' = [type |-> "Exception", message |-> message]
    /\ pc' = "raised"
    /\ UNCHANGED <<callArgs, downloadLocals, oauthLocals, fs, stdout, acquired,
                   typed, prompts, devicePosts, pollHistory, getHistory>>

\* Faulty variant of lines 55-56: the request is sent again.
DeviceRejectedRetries ==
    /\ pc = "device_check"
    /\ device_response.status_code # 200
    /\ pc' = "device_post"
    /\ UNCHANGED <<callArgs, downloadLocals, oauthLocals, fs, stdout, exc, acquired,
                   typed, prompts, devicePosts, pollHistory, getHistory>>

\* lines 55-56: a non-200 answer raises.
DeviceRejected ==
    /\ pc = "device_check"
    /\ device_response.status_code # 200
    /\ Raise(DeviceFailedMessage(device_response))

\* lines 55-67: a 200 answer is parsed and the polling loop is entered.
DeviceAccepted ==
    /\ pc = "device_check"
    /\ device_response.status_code = 200
    /\ device_data' = device_response.json
    /\ device_code' = device_response.json.device_code
    /\ interval' = device_response.json.interval
    /\ pc' = "token_post"
    /\ UNCHANGED <<callArgs, downloadLocals, device_response, token_response, fs,
                   stdout, exc, acquired, typed, prompts, devicePosts,
                   pollHistory, getHistory>>

\* lines 70-77: one POST to the token endpoint; the identity provider answers.
\* It answers slow_down at most MaxSlowDowns times in one flow.
PostToken(r) ==
    /\ pc = "token_post"
    /\ IsSlowDown(r) => slowDowns < MaxSlowDowns
    /\ token_request' = [url |-> AUTH_BASE_URL \o "/token", grant_type |-> GRANT_TYPE,
                         device_code |-> device_code, client_id |-> CLIENT_ID]
    /\ token_response' = r
    /\ tokenPosts' = Min(tokenPosts + 1, MaxCount)
    /\ slowDowns' = IF IsSlowDown(r) THEN slowDowns + 1 ELSE slowDowns
    /\ slept' = <<>>
    /\ pc' = "token_check"
    /\ UNCHANGED <<callArgs, downloadLocals, device_response, device_data, device_code,
                   interval, fs, stdout, exc, acquired, typed, prompts,
                   devicePosts, sleepCalls, elapsed, getHistory>>

\* lines 79-83: status 200 returns the bearer header (assigned at line 126).  The
\* frame of getHeaderOAuth ends here: its locals are gone, and so is the history
\* of its polling loop.  (After a raise the traceback keeps the frame.)
TokenGranted ==
    /\ pc = "token_check"
    /\ token_response.status_code = 200
    /\ headers' = OAuthHeader(token_response.json.access_token)
    /\ acquired' = OAuthHeader(token_response.json.access_token)
    /\ device_response' = None /\ device_data' = None /\ device_code' = Unbound
    /\ interval' = UnboundInt /\ token_response' = None
    /\ tokenPosts' = 0 /\ token_request' = None
    /\ sleepCalls' = 0 /\ slept' = <<>> /\ elapsed' = 0 /\ slowDowns' = 0
    /\ pc' = "get"
    /\ UNCHANGED <<callArgs, response, output_file, chunks, fs, stdout, exc, typed,
                   prompts, devicePosts, getHistory>>

\* Faulty variant of lines 89-92: the interval doubles while waiting.
TokenPendingBackoff ==
    /\ pc = "token_check"
    /\ token_response.status_code = 400
    /\ ErrorIs(token_response.json, "authorization_pending")
    /\ interval' = 2 * interval
    /\ pc' = "sleep"
    /\ UNCHANGED <<callArgs, downloadLocals, device_response, device_data, device_code,
                   token_response, fs, stdout, exc, acquired, typed, prompts,
                   devicePosts, pollHistory, getHistory>>

\* Faulty variant of lines 89-92: polling gives up once expires_in seconds were slept.
TokenPendingDeadline ==
    /\ pc = "token_check"
    /\ token_response.status_code = 400
    /\ ErrorIs(token_response.json, "authorization_pending")
    /\ IF elapsed >= device_data.expires_in
       THEN Raise(ExpiredMessage)
       ELSE /\ pc' = "sleep"
            /\ UNCHANGED <<callArgs, downloadLocals, oauthLocals, fs, stdout, exc,
                           acquired, typed, prompts, devicePosts, pollHistory,
                           getHistory>>

\* lines 85-92: authorization_pending goes to time.sleep(interval).
TokenPending ==
    /\ pc = "token_check"
    /\ token_response.status_code = 400
    /\ ErrorIs(token_response.json, "authorization_pending")
    /\ pc' = "sleep"
    /\ UNCHANGED <<callArgs, downloadLocals, oauthLocals, fs, stdout, exc, acquired,
                   typed, prompts, devicePosts, pollHistory, getHistory>>

\* lines 93-97: slow_down increases interval, then goes to time.sleep(interval).
TokenSlowDown ==
    /\ pc = "token_check"
    /\ token_response.status_code = 400
    /\ ErrorIs(token_response.json, "slow_down")
    /\ interval' = SlowDownInterval(interval)
    /\ pc' = "sleep"
    /\ UNCHANGED <<callArgs, downloadLocals, device_response, device_data, device_code,
                   token_response, fs, stdout, exc, acquired, typed, prompts,
                   devicePosts, pollHistory, getHistory>>

\* lines 91 and 96: time.sleep(interval), then continue.
Sleep ==
    /\ pc = "sleep"
    /\ sleepCalls' = Min(sleepCalls + 1, MaxCount)
    /\ slept' = Append(slept, interval)
    /\ elapsed' = Min(elapsed + interval, MaxElapsed)
    /\ pc' = "token_post"
    /\ UNCHANGED <<callArgs, downloadLocals, oauthLocals, fs, stdout, exc, acquired,
                   typed, prompts, devicePosts, tokenPosts, token_request,
                   slowDowns, getHistory>>

\* lines 98-99
TokenExpired ==
    /\ pc = "token_check"
    /\ token_response.status_code = 400
    /\ ErrorIs(token_response.json, "expired_token")
    /\ Raise(ExpiredMessage)

\* lines 100-101
TokenDenied ==
    /\ pc = "token_check"
    /\ token_response.status_code = 400
    /\ ErrorIs(token_response.json, "access_denied")
    /\ Raise(DeniedMessage)

\* lines 102-103: any other error value, a missing one included.
TokenOtherError ==
    /\ pc = "token_check"
    /\ token_response.status_code = 400
    /\ \A e \in {"authorization_pending", "slow_down", "expired_token", "access_denied"} :
           ~ErrorIs(token_response.json, e)
    /\ Raise(AuthErrorMessage(token_response.json))

\* lines 105-106: any other status code.
TokenFailed ==
    /\ pc = "token_check"
    /\ token_response.status_code \notin {200, 400}
    /\ Raise(TokenFailedMessage(token_response))

\* Faulty variant of line 130: a non-200 answer makes the GET go out again.
GetRetried(r) ==
    /\ pc = "get"
    /\ get_request' = [url |-> FlightUrl(flight), headers |-> headers]
    /\ gets' = gets + 1
    /\ response' = r
    /\ pc' = IF r.status_code # 200 /\ gets = 0 THEN "get" ELSE "response_check"
    /\ UNCHANGED <<callArgs, headers, output_file, chunks, oauthLocals, fs, stdout, exc,
                   acquired, typed, prompts, devicePosts, pollHistory, fwrites>>

\* line 130: the GET to the resource server, with the header of line 126.
Get(r) ==
    /\ pc = "get"
    /\ get_request' = [url |-> FlightUrl(flight), headers |-> headers]
    /\ gets' = gets + 1
    /\ response' = r
    /\ pc' = "response_check"
    /\ UNCHANGED <<callArgs, headers, output_file, chunks, oauthLocals, fs, stdout, exc,
                   acquired, typed, prompts, devicePosts, pollHistory, fwrites>>

\* lines 133-135: status 200 opens the output file for writing.
OpenFile ==
    /\ pc = "response_check"
    /\ response.status_code = 200
    /\ output_file' = OutputFile(output_dir, flight)
    /\ fs' = OpenForWrite(fs, OutputFile(output_dir, flight))
    /\ chunks' = response.body
    /\ pc' = "write"
    /\ UNCHANGED <<callArgs, headers, response, oauthLocals, stdout, exc, acquired,
                   typed, prompts, devicePosts, pollHistory, getHistory>>

\* lines 136-138: a non-empty chunk is written.
WriteChunk ==
    /\ pc = "write"
    /\ chunks # <<>>
    /\ Head(chunks) # ""
    /\ fs' = WriteTo(fs, output_file, Head(chunks))
    /\ fwrites' = Append(fwrites, Head(chunks))
    /\ chunks' = Tail(chunks)
    /\ UNCHANGED <<pc, callArgs, headers, response, output_file, oauthLocals, stdout,
                   exc, acquired, typed, prompts, devicePosts, pollHistory,
                   gets, get_request>>

\* lines 136-137: an empty chunk is skipped.
SkipChunk ==
    /\ pc = "write"
    /\ chunks # <<>>
    /\ Head(chunks) = ""
    /\ chunks' = Tail(chunks)
    /\ UNCHANGED <<pc, callArgs, headers, response, output_file, oauthLocals, fs,
                   stdout, exc, acquired, typed, prompts, devicePosts,
                   pollHistory, getHistory>>

\* line 139: the stream is exhausted, the file is closed, the function returns.
Downloaded ==
    /\ pc = "write"
    /\ chunks = <<>>
    /\ stdout' = Append(stdout, DownloadedMessage(output_file))
    /\ pc' = "returned"
    /\ UNCHANGED <<callArgs, downloadLocals, oauthLocals, fs, exc, acquired,
                   typed, prompts, devicePosts, pollHistory, getHistory>>

\* Faulty variant of lines 133-142: the output file is opened before the status is
\* looked at.
ReportErrorTruncates ==
    /\ pc = "response_check"
    /\ response.status_code # 200
    /\ output_file' = OutputFile(output_dir, flight)
    /\ fs' = OpenForWrite(fs, OutputFile(output_dir, flight))
    /\ stdout' = Append(stdout, ErrorMessage(response))
    /\ pc' = "returned"
    /\ UNCHANGED <<callArgs, headers, response, chunks, oauthLocals, exc, acquired,
                   typed, prompts, devicePosts, pollHistory, getHistory>>

\* lines 133, 140-142: any other status prints the error, the function returns.
ReportError ==
    /\ pc = "response_check"
    /\ response.status_code # 200
    /\ output_file' = OutputFile(output_dir, flight)
    /\ stdout' = Append(stdout, ErrorMessage(response))
    /\ pc' = "returned"
    /\ UNCHANGED <<callArgs, headers, response, chunks, oauthLocals, fs, exc, acquired,
                   typed, prompts, devicePosts, pollHistory, getHistory>>

\* The steps the program takes by itself or on an answer it is waiting for.
ProgramStep ==
    \/ \E t \in TypedTokens : GetHeader(t)
    \/ \E r \in DeviceResponses : PostDevice(r)
    \/ DeviceRejected
    \/ DeviceAccepted
    \/ \E r \in TokenResponses : PostToken(r)
    \/ TokenGranted
    \/ TokenPending
    \/ TokenSlowDown
    \/ Sleep
    \/ TokenExpired
    \/ TokenDenied
    \/ TokenOtherError
    \/ TokenFailed
    \/ \E r \in GetResponses : Get(r)
    \/ OpenFile
    \/ WriteChunk
    \/ SkipChunk
    \/ Downloaded
    \/ ReportError

Next ==
    \/ \E f \in Flights, dir \in OutputDirs, oauth \in BOOLEAN : Call(f, dir, oauth)
    \/ ProgramStep

Spec == Init /\ [][Next]_vars

\* The program is single-threaded and blocking: a started call keeps running, and
\* every answer it waits for arrives.
FairSpec == Spec /\ WF_vars(ProgramStep)

--------------------------------------------------------------------------
\* States of the device-authorization flow: POLLING and DONE.

FlowPolling == pc \in {"token_post", "token_check", "sleep"}
FlowDoneSuccess == use_oauth /\ acquired # None
FlowDoneFailure == use_oauth /\ pc = "raised"
FlowDone == FlowDoneSuccess \/ FlowDoneFailure

\* The two answers of the token endpoint that keep the loop polling.
IsPending(r) == r.status_code = 400 /\ ErrorIs(r.json, "authorization_pending")
IsRetry(r) == IsPending(r) \/ IsSlowDown(r)

\* The concatenation, in order, of the non-empty elements of a sequence of chunks.
RECURSIVE ConcatNonEmpty(_)
ConcatNonEmpty(body) ==
    IF body = <<>> THEN ""
    ELSE IF Head(body) = "" THEN ConcatNonEmpty(Tail(body))
    ELSE Head(body) \o ConcatNonEmpty(Tail(body))

--------------------------------------------------------------------------
\* C1: a device-authorization response whose status is not 200 makes
\* getHeaderOAuth raise at once: the only place the flow can be after the status
\* check is the raised exception, exactly one device-authorization POST was sent
\* (no retry), and no POST to the token endpoint, no sleep, no header and no GET
\* has happened.
C1_DeviceFailureRaisesAtOnce ==
    (device_response # None /\ device_response.status_code # 200) =>
        /\ pc \in {"device_check", "raised"}
        /\ devicePosts = 1
        /\ tokenPosts = 0 /\ token_request = None /\ token_response = None
        /\ sleepCalls = 0 /\ elapsed = 0 /\ slept = <<>>
        /\ acquired = None /\ gets = 0
        /\ pc = "raised" =>
               exc.message = "Device authorization request failed: " \o device_response.text

C1_Witness ==
    /\ pc = "raised"
    /\ device_response # None
    /\ device_response.status_code = 503
    /\ exc.message = "Device authorization request failed: unavailable"

\* C2: a 200 response of the token endpoint ends the polling loop: the step that
\* handles it returns, with nothing slept since the response, the header
\* Authorization = "Bearer " + access_token of that response, Accept =
\* "application/octet-stream", whatever number of authorization_pending / slow_down
\* responses came before; and once the header is returned the call never goes back
\* to a token request or a sleep and keeps that header.
C2_GrantStep ==
    /\ (pc = "token_check" /\ token_response.status_code = 200) =>
           /\ slept = <<>>
           /\ token_request.device_code = device_data.device_code
           /\ pc' = "get"
           /\ acquired' = [Authorization |-> "Bearer " \o token_response.json.access_token,
                           Accept |-> "application/octet-stream"]
           /\ headers' = acquired'
           /\ exc' = None
           /\ sleepCalls' = 0 /\ tokenPosts' = 0
    /\ (FlowDoneSuccess /\ calls' = calls) =>
           /\ pc' \in {"get", "response_check", "write", "returned"}
           /\ acquired' = acquired
           /\ headers' = headers
           /\ sleepCalls' = 0 /\ tokenPosts' = 0

C2_GrantReturnsBearerHeader == [][C2_GrantStep]_vars

C2_Witness ==
    /\ pc = "token_check"
    /\ token_response.status_code = 200
    /\ token_response.json.access_token = "tok123"
    /\ tokenPosts >= 2
    /\ slowDowns >= 1
    /\ sleepCalls >= 2

\* C3: after an authorization_pending response the loop goes to one sleep of the
\* current interval, leaves interval unchanged, and then posts the next token
\* request with the device_code of the device response; device_code never changes
\* during polling.
C3_PendingStep ==
    /\ (pc = "token_check" /\ IsPending(token_response)) =>
           /\ pc' = "sleep"
           /\ interval' = interval
           /\ slept = <<>> /\ slept' = <<>>
    /\ (pc = "sleep" /\ IsPending(token_response)) =>
           /\ pc' = "token_post"
           /\ interval' = interval
           /\ slept' = <<interval>>
    /\ (pc = "token_post" /\ token_response # None /\ IsPending(token_response)) =>
           /\ slept = <<interval>>
           /\ pc' = "token_check"
           /\ token_request'.device_code = device_data.device_code
           /\ token_request'.device_code = device_code
    /\ (FlowPolling /\ FlowPolling') => device_code' = device_code

C3_PendingSleepsIntervalAndRetries == [][C3_PendingStep]_vars

C3_Witness ==
    /\ pc = "token_post"
    /\ token_response # None
    /\ IsPending(token_response)
    /\ tokenPosts >= 2
    /\ slowDowns = 1
    /\ device_data.interval = 1
    /\ interval = 6
    /\ slept = <<6>>
    /\ device_code = "abc"
    /\ token_request.device_code = "abc"

\* C4: every slow_down response increases interval by exactly 5 before the sleep
\* that follows it, and that sleep uses the increased value; so at every point of
\* the polling loop interval is the interval of the device response plus 5 times
\* the number of slow_down responses received (the one being handled is added when
\* its branch runs), and interval never decreases.
C4_IntervalInv ==
    /\ FlowPolling =>
           interval = device_data.interval
                      + 5 * (IF pc = "token_check" /\ IsSlowDown(token_response)
                             THEN slowDowns - 1 ELSE slowDowns)
    /\ (pc = "token_post" /\ token_response # None /\ IsSlowDown(token_response)) =>
           slept = <<device_data.interval + 5 * slowDowns>>

C4_IntervalStep ==
    /\ (pc = "token_check" /\ IsSlowDown(token_response)) =>
           /\ interval' = interval + 5
           /\ pc' = "sleep"
    /\ (pc = "sleep" /\ IsSlowDown(token_response)) =>
           /\ slept' = <<interval>>
           /\ pc' = "token_post"
    /\ (FlowPolling /\ FlowPolling') => interval' >= interval

C4_SlowDownAddsFive == [](C4_IntervalInv) /\ [][C4_IntervalStep]_vars

C4_Witness ==
    /\ pc = "token_post"
    /\ token_response # None
    /\ IsSlowDown(token_response)
    /\ slowDowns = 2
    /\ device_data.interval = 1
    /\ interval = 11
    /\ slept = <<11>>

\* C5: every token-endpoint response other than 200, 400/authorization_pending and
\* 400/slow_down makes the loop raise at once, with no sleep, no further token
\* request and no header.  The exception is the "expired" one exactly for
\* expired_token and the "denied" one exactly for access_denied; any other 400
\* error value and any other status code get their own generic messages.
C5_TerminalErrorsRaise ==
    (token_response # None /\ token_response.status_code # 200
        /\ ~IsRetry(token_response)) =>
        /\ pc \in {"token_check", "raised"}
        /\ slept = <<>>
        /\ acquired = None /\ gets = 0
        /\ pc = "raised" =>
            /\ (exc.message = "Device code expired. Please restart the authentication process.")
                   <=> (token_response.status_code = 400
                        /\ ErrorIs(token_response.json, "expired_token"))
            /\ (exc.message = "Access denied by user.")
                   <=> (token_response.status_code = 400
                        /\ ErrorIs(token_response.json, "access_denied"))
            /\ (exc.message = "Token request failed: " \o ToString(token_response.status_code)
                          \o " - " \o token_response.text)
                   <=> (token_response.status_code # 400)
            /\ (token_response.status_code = 400
                    /\ exc.message = "Authentication error: " \o ReprDict(token_response.json))
                   <=> (token_response.status_code = 400
                        /\ ~ErrorIs(token_response.json, "expired_token")
                        /\ ~ErrorIs(token_response.json, "access_denied"))

C5_Witness ==
    /\ pc = "raised"
    /\ token_response # None
    /\ token_response.status_code = 400
    /\ ErrorIs(token_response.json, "access_denied")
    /\ exc.message = "Access denied by user."
    /\ tokenPosts >= 2

\* C6: when the resource server answers the GET with a status other than 200, the
\* file system is what it was when the call started (no file created, a file of a
\* prior run untouched), the one line printed is "Error <status>: <body>", nothing
\* is raised, the function returns, and exactly one GET was sent.
C6_DownloadErrorReported ==
    (response # None /\ response.status_code # 200) =>
        /\ pc \in {"response_check", "returned"}
        /\ fs = fs0
        /\ fwrites = <<>>
        /\ gets = 1
        /\ exc = None
        /\ pc = "returned" =>
               stdout = << "Error " \o ToString(response.status_code) \o ": "
                           \o response.text >>

C6_Witness ==
    /\ pc = "returned"
    /\ response # None
    /\ response.status_code = 404
    /\ flight = "F1"
    /\ "/tmp/F1.nc" \in DOMAIN fs
    /\ fs["/tmp/F1.nc"] = "OLDOLDOLD"
    /\ stdout = <<"Error 404: not found">>

\* C7: after a call whose GET was answered 200 has returned, the file
\* {output_dir}/{flight}.nc holds exactly the concatenation, in arrival order, of
\* the non-empty chunks of the body (whatever it held before), no empty chunk was
\* passed to f.write, and every other file is as it was when the call started.
C7_FileIsBodyOfResponse ==
    (pc = "returned" /\ response.status_code = 200) =>
        LET path == output_dir \o "/" \o flight \o ".nc" IN
        /\ output_file = path
        /\ path \in DOMAIN fs
        /\ fs[path] = ConcatNonEmpty(response.body)
        /\ fwrites = SelectSeq(response.body, LAMBDA c : c # "")
        /\ DOMAIN fs = DOMAIN fs0 \cup {path}
        /\ \A p \in DOMAIN fs0 : p # path => fs[p] = fs0[p]

C7_Witness ==
    /\ pc = "returned"
    /\ response.status_code = 200
    /\ response.body = <<"", "DATA">>
    /\ flight = "F1"
    /\ "/tmp/F1.nc" \in DOMAIN fs0
    /\ fs0["/tmp/F1.nc"] = "OLDOLDOLD"
    /\ fs["/tmp/F1.nc"] = "DATA"
    /\ "/tmp/F2.nc" \in DOMAIN fs
    /\ fs["/tmp/F2.nc"] = "NCDATA"

\* C8: a call sends at most one GET, only after the token acquirer of this same
\* call has returned a header, and the GET carries exactly that header; when the
\* acquirer raises, no GET is sent and no file is written.
C8_OneGetWithAcquiredHeader ==
    /\ gets <= 1
    /\ (gets = 0) <=> (get_request = None)
    /\ get_request # None =>
           /\ acquired # None
           /\ get_request.headers = acquired
           /\ get_request.url = "https://api.sedoo.fr/iagos-backend-test/v2.0/downloads/"
                                \o flight \o "?level=2&format=netcdf&type=timeseries"
           /\ prompts + devicePosts = 1
    /\ acquired = None => (gets = 0 /\ fs = fs0 /\ fwrites = <<>>)
    /\ pc = "raised" => (acquired = None /\ gets = 0 /\ fs = fs0 /\ exc # None)

C8_Witness ==
    /\ calls = 2
    /\ pc = "response_check"
    /\ gets = 1
    /\ "/tmp/F2.nc" \in DOMAIN fs
    /\ get_request.headers.Authorization = "Bearer tok456"

\* C9: with use_oauth false the header comes from getHeader alone: no request goes
\* to the device-authorization or token endpoint, nothing is raised whatever was
\* typed (the empty string included), and the header is Authorization = "Bearer "
\* + the typed string, Accept = "application/octet-stream"; with use_oauth true
\* there is no prompt and a header is returned only after the device flow ran.
C9_ManualHeaderOnly ==
    /\ (calls > 0 /\ ~use_oauth) =>
           /\ devicePosts = 0 /\ tokenPosts = 0
           /\ device_response = None /\ token_response = None
           /\ sleepCalls = 0
           /\ exc = None /\ pc # "raised"
           /\ pc # "getHeader" =>
                  /\ prompts = 1
                  /\ typed # Unbound
                  /\ acquired = [Authorization |-> "Bearer " \o typed,
                                 Accept |-> "application/octet-stream"]
                  /\ headers = acquired
    /\ (calls > 0 /\ use_oauth) =>
           /\ prompts = 0 /\ typed = Unbound
           /\ acquired # None => devicePosts = 1

C9_Witness ==
    /\ ~use_oauth
    /\ pc = "response_check"
    /\ typed = ""
    /\ get_request.headers = [Authorization |-> "Bearer ", Accept |-> "application/octet-stream"]

\* C10: the polling loop is left only on a token-endpoint response that is neither
\* authorization_pending nor slow_down, whatever the number of attempts and the
\* time slept; a flow that is done after polling has such a response as its last
\* one.  A 200 or a terminal error received leads to DONE, and a polling flow always
\* gets to DONE or to the next authorization_pending / slow_down response.
C10_LeavesPollingOnlyOnTerminal ==
    (FlowPolling /\ ~FlowPolling') =>
        /\ pc = "token_check"
        /\ ~IsRetry(token_response)
        /\ FlowDone'

C10_DoneAfterPolling ==
    (FlowDone /\ token_response # None) => ~IsRetry(token_response)

C10_PollsUntilTerminalResponse ==
    /\ [][C10_LeavesPollingOnlyOnTerminal]_vars
    /\ [](C10_DoneAfterPolling)
    /\ (pc = "token_check" /\ ~IsRetry(token_response)) ~> FlowDone
    /\ FlowPolling ~> (FlowDone \/ (pc = "token_check" /\ IsRetry(token_response)))

C10_Witness ==
    /\ pc = "token_check"
    /\ IsPending(token_response)
    /\ tokenPosts = MaxCount
    /\ sleepCalls = MaxCount
    /\ elapsed = MaxElapsed
    /\ elapsed > device_data.expires_in

==========================================================================
